---------------------------- MODULE Spec2Model ----------------------------
(***************************************************************************)
(* A model of src/app.py: the in-memory project store, the HTTP handlers   *)
(* create_project / get_project / update_project, the background worker    *)
(* process_in_background and process_crewai_project with its decomposition *)
(* of the crew's result into writer_output / reviewer_feedback /           *)
(* final_output.                                                           *)
(*                                                                         *)
(* Texts are sequences of symbols.  A symbol is one character (" ", "x",   *)
(* "t", ...) or a word that stands for exactly that run of characters      *)
(* ("Writer", "Review", "er", "Compliance").  The words are chosen so that *)
(* no marker the code searches for can arise across a symbol boundary: a   *)
(* substring test on characters is a sub-sequence test on symbols, and     *)
(* "Reviewer" is "Review" followed by "er".                                *)
(*                                                                         *)
(* The handlers run on threads of the Flask server and the worker on a     *)
(* thread of its own; a step of the model is one access to shared memory   *)
(* (the projects dict, os.environ) together with the thread-local code     *)
(* around it.  str(uuid.uuid4()) is taken to be an identifier not in use.  *)
(***************************************************************************)
EXTENDS Integers, Sequences, FiniteSets, TLC

\* ---------------------------------------------------------------- bounds

\* Number of POST /api/projects requests (each may start one worker thread).
MaxRuns == 2
\* Number of GET / PUT requests on /api/projects/<id>.
MaxClientOps == 1
\* Longest combined text (in symbols) handed to the decomposition on its own.
MaxBlobLen == 4
\* Most pieces in one task output handed to the decomposition on its own.
MaxChunks == 2

\* ------------------------------------------------------ program constants

\* topic[:50], the default project name.
NameLimit == 50
\* tasks=[write_task, review_task, compliance_task]
NumStages == 3

Runs == 1 .. MaxRuns
Ids == 1 .. MaxRuns
Stages == 1 .. NumStages

\* role= of the agent of each task, in the order of my_crew.tasks
Role(k) ==
  CASE k = 1 -> "Creative Content Writer"
    [] k = 2 -> "Brand Compliance Reviewer"
    [] OTHER -> "Legal and Ethics Compliance Officer"

\* context= of each task: the earlier tasks whose output it is given
Context(k) ==
  CASE k = 1 -> {}
    [] k = 2 -> {1}
    [] OTHER -> {1, 2}

\* ------------------------------------------------------------------ text

Min(a, b) == IF a < b THEN a ELSE b

IsSpace(c) == c = " "

RECURSIVE LStrip(_)
LStrip(s) ==
  IF s = <<>> THEN s
  ELSE IF IsSpace(Head(s)) THEN LStrip(Tail(s)) ELSE s

RECURSIVE RStrip(_)
RStrip(s) ==
  IF s = <<>> THEN s
  ELSE IF IsSpace(s[Len(s)]) THEN RStrip(SubSeq(s, 1, Len(s) - 1)) ELSE s

\* strip() left out: the text as received.
stripNothing(s) == s

\* str.strip()
strip(s) == RStrip(LStrip(s))

\* s[:n]
Prefix(s, n) == SubSeq(s, 1, Min(n, Len(s)))

\* sub occurs in s at position i (1-based)
OccursAt(s, sub, i) == SubSeq(s, i, i + Len(sub) - 1) = sub

\* sub in s
Contains(sub, s) == \E i \in 1 .. (Len(s) - Len(sub) + 1) : OccursAt(s, sub, i)

\* str.find, 1-based; 0 when sub does not occur
Find(s, sub) ==
  IF Contains(sub, s)
  THEN CHOOSE i \in 1 .. (Len(s) - Len(sub) + 1) :
         OccursAt(s, sub, i) /\ \A j \in 1 .. (i - 1) : ~OccursAt(s, sub, j)
  ELSE 0

\* s.split(sep, 1)
split1(s, sep) ==
  LET p == Find(s, sep)
  IN  IF p = 0 THEN <<s>>
      ELSE <<SubSeq(s, 1, p - 1), SubSeq(s, p + Len(sep), Len(s))>>

\* The markers of the code, as symbol sequences.
CreativeContentWriter == <<"Creative Content ", "Writer">>
Writer == <<"Writer">>
BrandComplianceReviewer == <<"Brand ", "Compliance", " ", "Review", "er">>
Reviewer == <<"Review", "er">>
LegalAndEthics == <<"Legal and Ethics">>
Compliance == <<"Compliance">>
Review == <<"Review">>
Placeholder == <<"Review completed. See final output.">>


\* ----------------------------------------------------- result decomposition

\* The loop body with three independent tests in place of if / elif / elif:
\* a text goes to every field one of whose markers it holds.
SniffStepEvery(acc, text) ==
  LET a == IF Contains(CreativeContentWriter, text) \/ Contains(Writer, text)
           THEN [acc EXCEPT !.writer_output = text] ELSE acc
      b == IF Contains(BrandComplianceReviewer, text) \/ Contains(Reviewer, text)
           THEN [a EXCEPT !.reviewer_feedback = text] ELSE a
  IN  IF Contains(LegalAndEthics, text) \/ Contains(Compliance, text)
      THEN [b EXCEPT !.final_output = text] ELSE b

\* One turn of the loop over result.tasks_output.
SniffStep(acc, text) ==
  IF Contains(CreativeContentWriter, text) \/ Contains(Writer, text)
  THEN [acc EXCEPT !.writer_output = text]
  ELSE IF Contains(BrandComplianceReviewer, text) \/ Contains(Reviewer, text)
  THEN [acc EXCEPT !.reviewer_feedback = text]
  ELSE IF Contains(LegalAndEthics, text) \/ Contains(Compliance, text)
  THEN [acc EXCEPT !.final_output = text]
  ELSE acc

RECURSIVE Sniff(_, _)
Sniff(acc, outs) ==
  IF outs = <<>> THEN acc ELSE Sniff(SniffStep(acc, Head(outs)), Tail(outs))

\* The split trimming the text also when it holds no "Review".
SplitFallbackTrimmed(acc) ==
  LET parts == split1(acc.final_output, Review)
  IN  IF Len(parts) > 1
      THEN [acc EXCEPT !.writer_output = strip(parts[1]),
                       !.reviewer_feedback = Review \o strip(parts[2])]
      ELSE [acc EXCEPT !.writer_output = strip(acc.final_output),
                       !.reviewer_feedback = Placeholder]

\* The best-effort split of the final output.
SplitFallback(acc) ==
  LET parts == split1(acc.final_output, Review)
  IN  IF Len(parts) > 1
      THEN [acc EXCEPT !.writer_output = strip(parts[1]),
                       !.reviewer_feedback = Review \o strip(parts[2])]
      ELSE [acc EXCEPT !.writer_output = acc.final_output,
                       !.reviewer_feedback = Placeholder]

\* What process_crewai_project returns for the value kickoff returned:
\* result.raw is str(result), result.tasks_output the per-task outputs (each
\* str(task_output)), result.has_tasks_output is hasattr(result, 'tasks_output').
Decompose(result) ==
  LET start == [writer_output |-> <<>>, reviewer_feedback |-> <<>>,
                final_output |-> result.raw]
      sniffed == IF result.has_tasks_output
                 THEN Sniff(start, result.tasks_output) ELSE start
  IN  IF sniffed.writer_output = <<>> /\ sniffed.reviewer_feedback = <<>>
      THEN SplitFallback(sniffed) ELSE sniffed

\* The message process_crewai_project re-raises with, which the worker stores
\* as str(e): "Error processing project: " + str(e) + "\n" + the traceback.
\* The traceback is that of the kickoff call; it is the same for every task.
ErrorMsg(e) == <<"Error processing project: ", e, "\n", "Traceback">>

\* --------------------------------------------------------------- records

Statuses == {"pending", "processing", "completed", "error"}

\* datetime.now().isoformat(): an opaque reading of the clock.  No handler
\* compares or branches on a timestamp, so every reading is this one value.
now == "isoformat"

NewProject(id, name, topic, guidelines, t) ==
  [id |-> id, project_name |-> name, topic |-> topic, guidelines |-> guidelines,
   status |-> "pending", writer_output |-> <<>>, reviewer_feedback |-> <<>>,
   final_output |-> <<>>, created_at |-> t, updated_at |-> t]

\* dict.update
Merge(rec, d) ==
  [f \in (DOMAIN rec) \cup (DOMAIN d) |-> IF f \in DOMAIN d THEN d[f] ELSE rec[f]]

ProcessingUpdate(t) == [status |-> "processing", updated_at |-> t]

CompletedUpdate(ret, t) ==
  [status |-> "completed", writer_output |-> ret.writer_output,
   reviewer_feedback |-> ret.reviewer_feedback,
   final_output |-> ret.final_output, updated_at |-> t]

\* The except branch recording the message but not the status.
ErrorUpdateNoStatus(msg, t) == [error_message |-> msg, updated_at |-> t]

\* The except branch resetting the output fields as well.
ErrorUpdateClearing(msg, t) ==
  [status |-> "error", error_message |-> msg, updated_at |-> t,
   writer_output |-> <<>>, reviewer_feedback |-> <<>>, final_output |-> <<>>]

ErrorUpdate(msg, t) == [status |-> "error", error_message |-> msg, updated_at |-> t]

\* HTTP responses
Ok(rec) == [code |-> 200, success |-> TRUE, project |-> rec]
Err(code, msg) == [code |-> code, success |-> FALSE, error |-> msg]
NoResponse == [code |-> 0]

NoResult == [raw |-> <<>>, tasks_output |-> <<>>, has_tasks_output |-> FALSE]
NoClosure == [project_id |-> 0, topic |-> <<>>, guidelines |-> <<>>, api_key |-> <<>>]
NoException == [stage |-> 0, message |-> ""]

\* ---------------------------------------------------------------- inputs

\* request.json of a POST (an absent field reads as ''; has_name says whether
\* the body carries project_name): two bodies that pass the validation, with
\* different credentials, and one body per way of failing it.
GivenName == <<"n">>
PostBodies ==
  {[topic |-> <<" ", "t">>, guidelines |-> <<"g">>, api_key |-> <<"k">>,
    has_name |-> FALSE],
   [topic |-> <<"t">>, guidelines |-> <<"g", " ">>, api_key |-> <<"j", " ">>,
    has_name |-> TRUE],
   [topic |-> <<" ">>, guidelines |-> <<"g">>, api_key |-> <<"k">>,
    has_name |-> TRUE],
   [topic |-> <<"t">>, guidelines |-> <<>>, api_key |-> <<"k">>,
    has_name |-> FALSE],
   [topic |-> <<"t">>, guidelines |-> <<"g">>, api_key |-> <<" ", " ">>,
    has_name |-> FALSE]}

\* What the text-generation capability may answer, and fail with.
GenTexts(k) ==
  CASE k = 1 -> {<<"w">>, <<"Writer", " ", "w">>}
    [] k = 2 -> {<<"r">>}
    [] OTHER -> {<<"c">>}
GenErrors == {"quota exceeded"}

\* request.json of a PUT
PutBodies ==
  {[status |-> "pending", writer_output |-> <<"p">>],
   [topic |-> <<"z">>, id |-> 0]}

\* ------------------------------------------------------------------ state

VARIABLES
  projects,   \* the projects dict: id -> record
  environ,    \* os.environ["GEMINI_API_KEY"] (GOOGLE_API_KEY is set alike)
  creq,       \* per POST request: the body received
  cpc,        \* per POST request: "idle", "respond" (line 110), "done"
  cresp,      \* per POST request: the response sent
  closure,    \* per worker: project_id, topic, guidelines, api_key it captured
  wpc,        \* per worker: "none", "start", "setenv", "stage", "returned",
              \*             "except", "done"
  stage,      \* per worker: the task kickoff is executing (1..3)
  outs,       \* per worker: the task outputs kickoff holds so far
  used,       \* per worker: the credentials its generation calls have read
  calls,      \* per worker: the tasks executed so far, in the order executed
  result,     \* per worker: what kickoff returned
  exc,        \* per worker: the exception kickoff raised (failing task, message)
  nclient,    \* GET / PUT requests served
  lastRead    \* the response of the latest GET / PUT

vars == <<projects, environ, creq, cpc, cresp, closure, wpc, stage, outs,
          used, calls, result, exc, nclient, lastRead>>

workerVars == <<closure, wpc, stage, outs, used, calls, result, exc>>
postVars == <<creq, cpc, cresp>>

NoRequest == [topic |-> <<>>, guidelines |-> <<>>, api_key |-> <<>>,
              has_name |-> FALSE]

Init ==
  /\ projects = << >>
  /\ environ = <<>>
  /\ creq = [r \in Runs |-> NoRequest]
  /\ cpc = [r \in Runs |-> "idle"]
  /\ cresp = [r \in Runs |-> NoResponse]
  /\ closure = [r \in Runs |-> NoClosure]
  /\ wpc = [r \in Runs |-> "none"]
  /\ stage = [r \in Runs |-> 0]
  /\ outs = [r \in Runs |-> <<>>]
  /\ used = [r \in Runs |-> {}]
  /\ calls = [r \in Runs |-> <<>>]
  /\ result = [r \in Runs |-> NoResult]
  /\ exc = [r \in Runs |-> NoException]
  /\ nclient = 0
  /\ lastRead = NoResponse

\* ------------------------------------------------------- create_project

\* The error the validation answers with; "" when the request is accepted.
Validate(topic, guidelines, api_key) ==
  IF topic = <<>> THEN "Topic is required"
  ELSE IF guidelines = <<>> THEN "Brand guidelines are required"
  ELSE IF api_key = <<>> THEN "Gemini / OpenAI API key is required"
  ELSE ""

\* str(uuid.uuid4()): an identifier not in use (the least one, the identifiers
\* being interchangeable).
uuid4 == CHOOSE i \in Ids \ DOMAIN projects : \A j \in Ids \ DOMAIN projects : i <= j

\* Lines 40-108: read and validate the body, store the project, start the thread.
\* r is the ordinal of the request among the POSTs the server receives.
CreateProject(r, data) ==
  /\ cpc[r] = "idle"
  /\ \A q \in Runs : q < r => cpc[q] # "idle"
  /\ creq' = [creq EXCEPT ![r] = data]
  /\ LET topic == strip(data.topic)
         guidelines == strip(data.guidelines)
         project_name == IF data.has_name THEN GivenName
                         ELSE Prefix(topic, NameLimit)
         api_key == strip(data.api_key)
         error == Validate(topic, guidelines, api_key)
     IN  IF error # ""
         THEN /\ cresp' = [cresp EXCEPT ![r] = Err(400, error)]
              /\ cpc' = [cpc EXCEPT ![r] = "done"]
              /\ UNCHANGED <<projects, workerVars>>
         ELSE LET project_id == uuid4 IN
                /\ projects' =
                     [i \in (DOMAIN projects) \cup {project_id} |->
                        IF i = project_id
                        THEN NewProject(project_id, project_name, topic,
                                        guidelines, now)
                        ELSE projects[i]]
                /\ closure' = [closure EXCEPT ![r] =
                     [project_id |-> project_id, topic |-> topic,
                      guidelines |-> guidelines, api_key |-> api_key]]
                /\ wpc' = [wpc EXCEPT ![r] = "start"]
                /\ cpc' = [cpc EXCEPT ![r] = "respond"]
                /\ UNCHANGED <<cresp, stage, outs, used, calls, result, exc>>
  /\ UNCHANGED <<environ, nclient, lastRead>>

\* Lines 110-113: build the response from the shared record.
CreateRespond(r) ==
  /\ cpc[r] = "respond"
  /\ cresp' = [cresp EXCEPT ![r] = Ok(projects[closure[r].project_id])]
  /\ cpc' = [cpc EXCEPT ![r] = "done"]
  /\ UNCHANGED <<projects, environ, creq, workerVars, nclient, lastRead>>


\* ------------------------------------------- process_in_background (worker)

\* A worker that looks up the project by a module-level "current id" (the
\* identifier of the latest project stored) instead of its own variable.
TargetLatest(r) == CHOOSE i \in DOMAIN projects : \A j \in DOMAIN projects : j <= i

\* The record a worker writes: projects[project_id], project_id being the
\* variable of the create_project call that defined the worker.
Target(r) == closure[r].project_id

\* projects[id].update(d)
Update(id, d) == [projects EXCEPT ![id] = Merge(projects[id], d)]

\* Lines 85-88.
WorkerStart(r) ==
  /\ wpc[r] = "start"
  /\ projects' = Update(Target(r), ProcessingUpdate(now))
  /\ wpc' = [wpc EXCEPT ![r] = "setenv"]
  /\ UNCHANGED <<environ, postVars, closure, stage, outs, used, calls,
                 result, exc, nclient, lastRead>>

\* Lines 167-168; the agents, tasks and crew built next are local.
SetEnv(r) ==
  /\ wpc[r] = "setenv"
  /\ environ' = closure[r].api_key
  /\ wpc' = [wpc EXCEPT ![r] = "stage"]
  /\ stage' = [stage EXCEPT ![r] = 1]
  /\ UNCHANGED <<projects, postVars, closure, outs, used, calls, result,
                 exc, nclient, lastRead>>

\* Line 258, one task of the sequential crew: the generation call reads the
\* credential from the environment and answers text; after the last task
\* kickoff returns a CrewOutput: str() of it is the last task's text, and it
\* has tasks_output (the crewai that accepts llm=<model string>).
StageSucceeds(r) ==
  /\ wpc[r] = "stage"
  /\ \E text \in GenTexts(stage[r]) :
       /\ outs' = [outs EXCEPT ![r] = Append(@, text)]
       /\ IF stage[r] < NumStages
          THEN /\ stage' = [stage EXCEPT ![r] = @ + 1]
               /\ UNCHANGED <<wpc, result>>
          ELSE /\ result' = [result EXCEPT ![r] =
                    [raw |-> text, tasks_output |-> outs'[r],
                     has_tasks_output |-> TRUE]]
               /\ wpc' = [wpc EXCEPT ![r] = "returned"]
               /\ UNCHANGED stage
  /\ used' = [used EXCEPT ![r] = @ \cup {environ}]
  /\ calls' = [calls EXCEPT ![r] = Append(@, stage[r])]
  /\ UNCHANGED <<projects, environ, postVars, closure, exc, nclient,
                 lastRead>>

\* A crew that runs a task again when its generation call raises for the
\* first time, and gives up when it raises once more.
StageFailsRetry(r, e) ==
  /\ wpc[r] = "stage"
  /\ used' = [used EXCEPT ![r] = @ \cup {environ}]
  /\ calls' = [calls EXCEPT ![r] = Append(@, stage[r])]
  /\ exc' = [exc EXCEPT ![r] = [stage |-> stage[r], message |-> e]]
  /\ wpc' = [wpc EXCEPT ![r] = IF exc[r].stage = 0 THEN "stage" ELSE "except"]
  /\ UNCHANGED <<projects, environ, postVars, closure, stage, outs,
                 result, nclient, lastRead>>

\* Line 258, a task whose generation call raises: kickoff raises, the outputs
\* of the earlier tasks are dropped with it.
StageFails(r, e) ==
  /\ wpc[r] = "stage"
  /\ used' = [used EXCEPT ![r] = @ \cup {environ}]
  /\ calls' = [calls EXCEPT ![r] = Append(@, stage[r])]
  /\ exc' = [exc EXCEPT ![r] = [stage |-> stage[r], message |-> e]]
  /\ wpc' = [wpc EXCEPT ![r] = "except"]
  /\ UNCHANGED <<projects, environ, postVars, closure, stage, outs,
                 result, nclient, lastRead>>

\* A worker whose decomposition starts from the writer_output the record
\* holds instead of an empty one: a writer_output already there is kept.
WorkerCompleteKeeping(r) ==
  /\ wpc[r] = "returned"
  /\ LET ret == Decompose(result[r])
         had == projects[Target(r)].writer_output
         kept == IF had = <<>> THEN ret ELSE [ret EXCEPT !.writer_output = had]
     IN  projects' = Update(Target(r), CompletedUpdate(kept, now))
  /\ wpc' = [wpc EXCEPT ![r] = "done"]
  /\ UNCHANGED <<environ, postVars, closure, stage, outs, used, calls,
                 result, exc, nclient, lastRead>>

\* Lines 260-295 (local) and 91-97.
WorkerComplete(r) ==
  /\ wpc[r] = "returned"
  /\ projects' = Update(Target(r), CompletedUpdate(Decompose(result[r]), now))
  /\ wpc' = [wpc EXCEPT ![r] = "done"]
  /\ UNCHANGED <<environ, postVars, closure, stage, outs, used, calls,
                 result, exc, nclient, lastRead>>

\* Lines 297-300 (local) and 98-103.
WorkerError(r) ==
  /\ wpc[r] = "except"
  /\ projects' = Update(Target(r), ErrorUpdate(ErrorMsg(exc[r].message), now))
  /\ wpc' = [wpc EXCEPT ![r] = "done"]
  /\ UNCHANGED <<environ, postVars, closure, stage, outs, used, calls,
                 result, exc, nclient, lastRead>>

\* ------------------------------------------- get_project, update_project

\* What GET /api/projects/<project_id> answers in the current state.
get_project(project_id) ==
  IF project_id \notin DOMAIN projects
  THEN Err(404, "Project not found")
  ELSE Ok(projects[project_id])

GetProject(project_id) ==
  /\ nclient < MaxClientOps
  /\ nclient' = nclient + 1
  /\ lastRead' = get_project(project_id)
  /\ UNCHANGED <<projects, environ, postVars, workerVars>>

\* A PUT that creates the record when the identifier is not a key
\* (projects.setdefault(project_id, {}).update(data)).
update_projectUpsert(project_id, data) ==
  /\ nclient < MaxClientOps
  /\ nclient' = nclient + 1
  /\ LET had == IF project_id \in DOMAIN projects
                THEN projects[project_id] ELSE << >>
         rec == Merge(Merge(had, data), [updated_at |-> now])
     IN  /\ projects' = [i \in (DOMAIN projects) \cup {project_id} |->
                           IF i = project_id THEN rec ELSE projects[i]]
         /\ lastRead' = Ok(rec)
  /\ UNCHANGED <<environ, postVars, workerVars>>

\* PUT /api/projects/<project_id>: a raw merge of the body, then updated_at.
update_project(project_id, data) ==
  /\ nclient < MaxClientOps
  /\ nclient' = nclient + 1
  /\ IF project_id \notin DOMAIN projects
     THEN /\ lastRead' = Err(404, "Project not found")
          /\ UNCHANGED projects
     ELSE /\ projects' = [projects EXCEPT ![project_id] =
                 Merge(Merge(@, data), [updated_at |-> now])]
          /\ lastRead' = Ok(projects'[project_id])
  /\ UNCHANGED <<environ, postVars, workerVars>>

Next ==
  \/ \E r \in Runs, data \in PostBodies : CreateProject(r, data)
  \/ \E r \in Runs : CreateRespond(r)
  \/ \E r \in Runs : WorkerStart(r)
  \/ \E r \in Runs : SetEnv(r)
  \/ \E r \in Runs : StageSucceeds(r)
  \/ \E r \in Runs, e \in GenErrors : StageFails(r, e)
  \/ \E r \in Runs : WorkerComplete(r)
  \/ \E r \in Runs : WorkerError(r)
  \/ \E id \in Ids : GetProject(id)
  \/ \E id \in Ids, data \in PutBodies : update_project(id, data)

Spec == Init /\ [][Next]_vars


\* The steps of run r's worker thread.
WorkerNext(r) ==
  \/ WorkerStart(r)
  \/ SetEnv(r)
  \/ StageSucceeds(r)
  \/ \E e \in GenErrors : StageFails(r, e)
  \/ WorkerComplete(r)
  \/ WorkerError(r)

\* One submission and its run, with the server's threads scheduled fairly:
\* a started worker thread keeps being run, every generation call of kickoff
\* answers or raises, and a handler that has stored the project goes on to
\* send its response.
NextLive ==
  \/ \E data \in PostBodies : CreateProject(1, data)
  \/ CreateRespond(1)
  \/ WorkerStart(1)
  \/ SetEnv(1)
  \/ StageSucceeds(1)
  \/ \E e \in GenErrors : StageFails(1, e)
  \/ WorkerComplete(1)
  \/ WorkerError(1)
  \/ \E id \in Ids : GetProject(id)
  \/ \E id \in Ids, data \in PutBodies : update_project(id, data)

SpecLive ==
  Init /\ [][NextLive]_vars /\ WF_vars(WorkerNext(1)) /\ WF_vars(CreateRespond(1))


\* ------------------------------------------ the decomposition on its own

\* Texts of at most n symbols over the symbols S.
RECURSIVE TextsUpTo(_, _)
TextsUpTo(S, n) ==
  IF n = 0 THEN {<<>>}
  ELSE LET shorter == TextsUpTo(S, n - 1)
       IN  shorter \cup {Append(t, c) : t \in shorter, c \in S}

Symbols == {"x", " ", "Writer", "Review", "er", "Compliance"}

\* The combined texts a kickoff without per-task outputs may return.
Blobs == TextsUpTo(Symbols, MaxBlobLen)

\* The outputs of one task: at most MaxChunks of these pieces, concatenated.
Chunks == {<<"x">>, Writer, Reviewer, Compliance}

RECURSIVE ChunkTexts(_)
ChunkTexts(n) ==
  IF n = 0 THEN {<<>>}
  ELSE LET shorter == ChunkTexts(n - 1)
       IN  shorter \cup {t \o c : t \in shorter, c \in Chunks}

TaskTexts == ChunkTexts(MaxChunks) \ {<<>>}

\* What kickoff may return: a CrewOutput with the three task outputs, str() of
\* which is the last one (any task texts; or two plain texts and any blob), or
\* (a library without tasks_output) a bare text.
CrewOutput(o) ==
  [raw |-> o[NumStages], tasks_output |-> o, has_tasks_output |-> TRUE]

BareText(b) == [raw |-> b, tasks_output |-> <<>>, has_tasks_output |-> FALSE]

DecompBody ==
  [topic |-> <<"t">>, guidelines |-> <<"g">>, api_key |-> <<"k">>,
   has_name |-> FALSE]

\* One accepted run whose kickoff has just returned.
InitDecomp ==
  /\ projects = [i \in {1} |->
       Merge(NewProject(1, <<"t">>, <<"t">>, <<"g">>, now), ProcessingUpdate(now))]
  /\ environ = <<"k">>
  /\ creq = [r \in Runs |-> IF r = 1 THEN DecompBody ELSE NoRequest]
  /\ cpc = [r \in Runs |-> IF r = 1 THEN "done" ELSE "idle"]
  /\ cresp = [r \in Runs |->
       IF r = 1 THEN Ok(NewProject(1, <<"t">>, <<"t">>, <<"g">>, now))
       ELSE NoResponse]
  /\ closure = [r \in Runs |->
       IF r = 1 THEN [project_id |-> 1, topic |-> <<"t">>,
                      guidelines |-> <<"g">>, api_key |-> <<"k">>]
       ELSE NoClosure]
  /\ wpc = [r \in Runs |-> IF r = 1 THEN "returned" ELSE "none"]
  /\ stage = [r \in Runs |-> IF r = 1 THEN NumStages ELSE 0]
  /\ \/ \E o1 \in TaskTexts, o2 \in TaskTexts, o3 \in TaskTexts :
          result = [r \in Runs |->
            IF r = 1 THEN CrewOutput(<<o1, o2, o3>>) ELSE NoResult]
     \/ \E b \in Blobs :
          result = [r \in Runs |->
            IF r = 1 THEN CrewOutput(<<<<"x">>, <<"x">>, b>>) ELSE NoResult]
     \/ \E b \in Blobs :
          result = [r \in Runs |-> IF r = 1 THEN BareText(b) ELSE NoResult]
  /\ outs = [r \in Runs |-> IF r = 1 THEN result[1].tasks_output ELSE <<>>]
  /\ used = [r \in Runs |-> IF r = 1 THEN {<<"k">>} ELSE {}]
  /\ calls = [r \in Runs |-> IF r = 1 THEN <<1, 2, 3>> ELSE <<>>]
  /\ exc = [r \in Runs |-> NoException]
  /\ nclient = 0
  /\ lastRead = NoResponse

NextDecomp == WorkerComplete(1)

SpecDecomp == InitDecomp /\ [][NextDecomp]_vars


\* ------------------------------------------------------------ properties

Terminal == {"completed", "error"}

\* The identifier of the run request r created.
RunId(r) == closure[r].project_id

\* The workers that have been started.
Started == {r \in Runs : wpc[r] # "none"}

\* Run r's worker has finished, every task having succeeded / task k failing.
Succeeded(r) == wpc[r] = "done" /\ exc[r].stage = 0
FailedAt(r, k) == wpc[r] = "done" /\ exc[r].stage = k

\* The step taken is one of run r's worker: each of them moves the worker on.
WorkerMoved(r) == <<wpc[r], stage[r]>>' # <<wpc[r], stage[r]>>

\* C1 as claimed: a status that has become 'completed' or 'error' never
\* changes afterwards, whatever step is taken.
C1_TerminalStatusNeverChanges ==
  [][\A id \in DOMAIN projects :
       projects[id].status \in Terminal
         => projects'[id].status = projects[id].status]_vars

\* C1 as amended: the worker writes 'processing' with its first step and
\* 'completed' or 'error' with its last, and no other step of it changes the
\* status; once the worker of a run has finished, the status of the run
\* changes only by a PUT on that run whose body carries a status.
C1_WorkerStatusFinal ==
  [][\A r \in Started :
       LET before == projects[RunId(r)].status
           after == projects'[RunId(r)].status
       IN  /\ (wpc[r] = "start" /\ wpc'[r] # "start") => after = "processing"
           /\ (wpc[r] # "done" /\ wpc'[r] = "done") => after \in Terminal
           /\ (wpc[r] \in {"setenv", "stage"} /\ WorkerMoved(r)) => after = before
           /\ (wpc[r] = "done" /\ after # before)
                => \E data \in PutBodies :
                     /\ "status" \in DOMAIN data
                     /\ update_project(RunId(r), data)]_vars

\* C1 witness: a run finished as 'error', a PUT without a status was served
\* on it afterwards (its response shows the status it found), and the status
\* is still 'error'.
C1_Witness ==
  \E r \in Started :
    /\ FailedAt(r, 2)
    /\ lastRead.code = 200
    /\ lastRead.project.status = "error"
    /\ lastRead.project.topic = <<"z">>
    /\ projects[RunId(r)] = lastRead.project


\* C2 as claimed: the response to an accepted submission carries the status
\* 'pending' or 'processing', never 'completed' or 'error'.
C2_SubmitAnswersInitialStatus ==
  \A r \in Runs :
    (cpc[r] = "done" /\ cresp[r].code = 200)
      => cresp[r].project.status \in {"pending", "processing"}

\* A text that is empty once its whitespace is trimmed.
Blank(s) == \A i \in 1 .. Len(s) : s[i] = " "

BlankInput(data) ==
  Blank(data.topic) \/ Blank(data.guidelines) \/ Blank(data.api_key)

\* C3: a submission with a blank topic, guidelines or api_key is answered at
\* once with an error (400), the step that answers it leaves the projects
\* store and every worker as they were, and no worker ever exists for it.
C3_BlankSubmissionRejected ==
  /\ [](\A r \in Runs :
          (cpc[r] # "idle" /\ BlankInput(creq[r]))
            => /\ cpc[r] = "done"
               /\ cresp[r].code = 400 /\ cresp[r].success = FALSE
               /\ wpc[r] = "none" /\ stage[r] = 0 /\ outs[r] = <<>>
               /\ closure[r] = NoClosure)
  /\ [][\A r \in Runs :
          (cpc[r] = "idle" /\ cpc'[r] # "idle" /\ BlankInput(creq'[r]))
            => /\ projects' = projects
               /\ UNCHANGED <<environ, workerVars>>]_vars

\* C3 witness: a submission whose topic is only whitespace was rejected while
\* the store already held a project.
C3_Witness ==
  \E r \in Runs :
    /\ cpc[r] = "done"
    /\ creq[r].topic = <<" ">>
    /\ cresp[r] = Err(400, "Topic is required")
    /\ DOMAIN projects = {1}

\* C4 as claimed: when task k of a run fails, only the k-1 earlier tasks have
\* run, and their results stay recorded on the run: for k = 2 or 3 the
\* status read shows the writer's output on the failed run.
C4_PartialResultsKept ==
  \A r \in Started : \A k \in Stages :
    (FailedAt(r, k) /\ nclient = 0)
      => /\ Len(outs[r]) = k - 1
         /\ get_project(RunId(r)).project.status = "error"
         /\ k >= 2 => get_project(RunId(r)).project.writer_output = outs[r][1]

\* C5 as claimed: when every task of a run has succeeded, the run is
\* 'completed' and carries the result of each task, in task order.
C5_CompletedCarriesEveryStage ==
  \A r \in Started :
    (Succeeded(r) /\ nclient = 0)
      => /\ projects[RunId(r)].status = "completed"
         /\ Len(outs[r]) = NumStages
         /\ projects[RunId(r)].writer_output = outs[r][1]
         /\ projects[RunId(r)].reviewer_feedback = outs[r][2]
         /\ projects[RunId(r)].final_output = outs[r][3]

\* s occurs among the parts of the message msg
Mentions(msg, s) == \E i \in 1 .. Len(msg) : msg[i] = s

\* C6 as claimed: the error_message of a run that failed at task k names the
\* role of task k and includes the message of the failure.
C6_ErrorNamesFailingRole ==
  \A r \in Started : \A k \in Stages :
    (FailedAt(r, k) /\ nclient = 0)
      => /\ Mentions(projects[RunId(r)].error_message, exc[r].message)
         /\ Mentions(projects[RunId(r)].error_message, Role(k))

\* The state of run r's worker thread.
WorkerState(r) ==
  <<closure[r], wpc[r], stage[r], outs[r], calls[r], result[r], exc[r]>>

\* C7: two runs have different identifiers, and a step of one run's worker (a
\* failing one included) leaves the record of every other run and the worker
\* of every other run where they were.
C7_RunsIsolated ==
  /\ [](\A r1 \in Started, r2 \in Started :
          r1 # r2 => RunId(r1) # RunId(r2))
  /\ [][\A r \in Started :
          WorkerMoved(r)
            => /\ \A id \in DOMAIN projects :
                    id # RunId(r) => projects'[id] = projects[id]
               /\ \A q \in Runs :
                    q # r => WorkerState(q)' = WorkerState(q)]_vars

\* C7 witness: two runs were in flight together, one failed, the other went
\* on afterwards and completed.
C7_Witness ==
  \E r1 \in Started, r2 \in Started :
    /\ FailedAt(r1, 1)
    /\ Succeeded(r2)
    /\ used[r2] = {closure[r1].api_key, closure[r2].api_key}
    /\ projects[RunId(r1)].status = "error"
    /\ projects[RunId(r2)].status = "completed"

\* C8 as claimed: nothing a run installs for its generation calls is read by
\* another run: every generation call of a run reads the credential the run
\* was submitted with.
C8_OwnCredentialOnly ==
  \A r \in Started : used[r] \subseteq {closure[r].api_key}

\* C9 as claimed: with the per-task outputs available, the writer's text is
\* writer_output, the reviewer's reviewer_feedback and the compliance
\* officer's final_output, unchanged, whatever the texts contain.
C9_AttributionByRole ==
  \A r \in Started :
    (Succeeded(r) /\ result[r].has_tasks_output)
      => /\ projects[RunId(r)].writer_output = result[r].tasks_output[1]
         /\ projects[RunId(r)].reviewer_feedback = result[r].tasks_output[2]
         /\ projects[RunId(r)].final_output = result[r].tasks_output[3]

\* C10 as claimed: without per-task outputs, a text whose first "Review" is
\* at position p gives writer_output = text[0:p] trimmed and
\* reviewer_feedback = text[p:] trimmed.
C10_SplitAtFirstReview ==
  \A r \in Started :
    (Succeeded(r) /\ ~result[r].has_tasks_output
       /\ Contains(Review, result[r].raw))
      => LET blob == result[r].raw
             p == Find(blob, Review)
         IN  /\ projects[RunId(r)].writer_output = strip(SubSeq(blob, 1, p - 1))
             /\ projects[RunId(r)].reviewer_feedback =
                  strip(SubSeq(blob, p, Len(blob)))

\* C11: without per-task outputs, a text that holds no "Review" is
\* writer_output as it is (untrimmed), and reviewer_feedback is the fixed
\* placeholder, which is not empty.
C11_NoMarkerFallback ==
  \A r \in Started :
    (Succeeded(r) /\ ~result[r].has_tasks_output
       /\ ~Contains(Review, result[r].raw))
      => /\ projects[RunId(r)].writer_output = result[r].raw
         /\ projects[RunId(r)].reviewer_feedback = Placeholder
         /\ projects[RunId(r)].reviewer_feedback # <<>>

\* C11 witness: a text without "Review" that starts with whitespace was
\* decomposed and is writer_output, whitespace included.
C11_Witness ==
  \E r \in Started :
    /\ Succeeded(r)
    /\ ~result[r].has_tasks_output
    /\ result[r].raw = <<" ", "x", "Writer", " ">>
    /\ projects[RunId(r)].writer_output = <<" ", "x", "Writer", " ">>
    /\ projects[RunId(r)].reviewer_feedback = Placeholder

\* C12 as claimed: final_output of a completed run is the last task's text
\* when the per-task outputs are available and the combined text otherwise;
\* it is never the text of an earlier task.
C12_FinalIsLastStage ==
  \A r \in Started :
    Succeeded(r)
      => projects[RunId(r)].final_output =
           (IF result[r].has_tasks_output
            THEN result[r].tasks_output[NumStages] ELSE result[r].raw)

\* The keys of the record the worker's last update (lines 91-97) writes.
CompletedKeys ==
  {"status", "writer_output", "reviewer_feedback", "final_output", "updated_at"}

\* The three output fields of a record.
Outcome(rec) == <<rec.writer_output, rec.reviewer_feedback, rec.final_output>>

C14_FallbackPerField ==
  \A r \in Started :
    (Succeeded(r) /\ result[r].has_tasks_output)
      => LET attributed == Sniff([writer_output |-> <<>>,
                                  reviewer_feedback |-> <<>>,
                                  final_output |-> result[r].raw],
                                 result[r].tasks_output)
             fallback == SplitFallback(attributed)
         IN  /\ attributed.writer_output = <<>>
                  => projects[RunId(r)].writer_output = fallback.writer_output
             /\ attributed.reviewer_feedback = <<>>
                  => projects[RunId(r)].reviewer_feedback
                       = fallback.reviewer_feedback

StatusOf(r) ==
  IF RunId(r) \in DOMAIN projects THEN projects[RunId(r)].status ELSE "none"

\* C16: an accepted run reaches a terminal status: from the moment its
\* project is stored (status 'pending', the worker about to start), the
\* worker eventually finishes, and when it finishes the status of the project
\* is 'completed' or 'error'; a generation call that raises ends in 'error'.
C16_RunTerminates ==
  /\ (wpc[1] = "start" /\ StatusOf(1) = "pending")
       ~> (wpc[1] = "done" /\ StatusOf(1) \in Terminal)
  /\ (wpc[1] = "except") ~> (StatusOf(1) = "error")
  /\ [][(wpc[1] # "done" /\ wpc'[1] = "done")
          => StatusOf(1)' \in Terminal]_vars

\* C16 witness: the writer's generation call raised, and the run went from
\* 'pending' over 'processing' to 'error' with nothing else served.
C16_Witness ==
  /\ FailedAt(1, 1)
  /\ calls[1] = <<1>>
  /\ cpc[1] = "done"
  /\ cresp[1].code = 200
  /\ cresp[1].project.status = "processing"
  /\ projects[RunId(1)].status = "error"
  /\ nclient = 0

\* The keys of a record the worker's updates (lines 85-103) write.
WorkerKeys == CompletedKeys \cup {"error_message"}

\* C17: a step of a run's worker changes, on the run's own record, only
\* status, writer_output, reviewer_feedback, final_output, error_message and
\* updated_at (id, project_name, topic, guidelines, created_at and whatever
\* else a PUT merged in stay as they are); the failing step leaves the three
\* output fields as they were; the completing step sets status 'completed'
\* and the three output fields whatever a PUT had put there.
C17_WorkerFrame ==
  [][\A r \in Started :
       WorkerMoved(r)
         => LET before == projects[RunId(r)]
                after == projects'[RunId(r)]
            IN  /\ DOMAIN before \subseteq DOMAIN after
                /\ DOMAIN after \subseteq DOMAIN before \cup {"error_message"}
                /\ \A f \in DOMAIN before :
                     f \notin WorkerKeys => after[f] = before[f]
                /\ (wpc[r] = "except" /\ wpc'[r] = "done")
                     => /\ Outcome(after) = Outcome(before)
                        /\ after.status = "error"
                /\ (wpc[r] = "returned" /\ wpc'[r] = "done")
                     => /\ Outcome(after) = Outcome(Decompose(result[r]))
                        /\ after.status = "completed"]_vars

\* C17 witness: while a run was processing a PUT set its status to 'pending'
\* and its writer_output; the reviewer's task failed afterwards: the status
\* was overwritten with 'error', the writer_output the PUT wrote is still
\* there.
C17_Witness ==
  \E r \in Started :
    /\ FailedAt(r, 2)
    /\ lastRead.code = 200
    /\ lastRead.project.id = RunId(r)
    /\ lastRead.project.status = "pending"
    /\ lastRead.project.writer_output = <<"p">>
    /\ projects[RunId(r)].status = "error"
    /\ projects[RunId(r)].writer_output = <<"p">>

\* The largest member of a non-empty set of numbers.
Max(S) == CHOOSE i \in S : \A j \in S : j <= i

\* The per-task outputs o sorted by the marker that decides: those holding
\* "Writer"; those holding "Reviewer" and not "Writer"; those holding
\* "Compliance" and neither of the two.
ToWriter(o) == {i \in DOMAIN o : Contains(Writer, o[i])}
ToReviewer(o) == {i \in DOMAIN o : Contains(Reviewer, o[i])} \ ToWriter(o)
ToFinal(o) ==
  {i \in DOMAIN o : Contains(Compliance, o[i])} \ (ToWriter(o) \cup ToReviewer(o))

\* C18: each per-task output goes to at most one field, writer before
\* reviewer before compliance, the last output sorted to a field being the
\* one kept; an output holding no marker goes nowhere.  So whenever some
\* output is sorted to writer_output or reviewer_feedback, the three fields
\* of the completed run are the last output of each kind ('' for
\* writer_output or reviewer_feedback without one, str(result) for
\* final_output without one); and final_output is so in every case.
C18_SniffPriority ==
  \A r \in Started :
    (Succeeded(r) /\ result[r].has_tasks_output)
      => LET o == result[r].tasks_output
             rec == projects[RunId(r)]
             final == IF ToFinal(o) = {} THEN result[r].raw
                      ELSE o[Max(ToFinal(o))]
         IN  /\ rec.final_output = final
             /\ (ToWriter(o) \cup ToReviewer(o) # {})
                  => /\ rec.writer_output =
                          (IF ToWriter(o) = {} THEN <<>>
                           ELSE o[Max(ToWriter(o))])
                     /\ rec.reviewer_feedback =
                          (IF ToReviewer(o) = {} THEN <<>>
                           ELSE o[Max(ToReviewer(o))])

\* C18 witness: the first output holds "Writer" and "Reviewer", the second
\* "Reviewer" and "Compliance", the third "Writer": writer_output is the
\* third, reviewer_feedback the second, and final_output str(result).
C18_Witness ==
  \E r \in Started :
    /\ Succeeded(r)
    /\ result[r].has_tasks_output
    /\ result[r].tasks_output =
         <<Writer \o Reviewer, Reviewer \o Compliance, Writer>>
    /\ Outcome(projects[RunId(r)]) = <<Writer, Reviewer \o Compliance, Writer>>

\* C19 as claimed: every key of the store maps to a record whose id is that
\* key, whatever submissions, worker steps and PUTs have happened.
C19_IdEqualsKey ==
  \A k \in DOMAIN projects : projects[k].id = k

\* C19 as amended: no key is ever removed; a key is added only by a
\* submission, with a record whose id is the key; the id of a record changes
\* only by a PUT on its key whose body carries an id (no submission and no
\* worker step changes it); a GET or PUT answered 'not found' leaves the
\* store as it was, and one answered with a project answers with the record
\* of a key the store already had.
C19_StoreIntegrity ==
  [][/\ DOMAIN projects \subseteq DOMAIN projects'
     /\ \A k \in DOMAIN projects' \ DOMAIN projects :
          /\ nclient' = nclient
          /\ \E r \in Runs : cpc[r] = "idle" /\ cpc'[r] = "respond"
          /\ projects'[k].id = k
     /\ \A k \in DOMAIN projects :
          projects'[k].id # projects[k].id
            => /\ nclient' = nclient + 1
               /\ lastRead' = Ok(projects'[k])
               /\ \E data \in PutBodies :
                    "id" \in DOMAIN data /\ projects'[k].id = data.id
     /\ nclient' # nclient
          => \/ /\ lastRead' = Err(404, "Project not found")
                /\ projects' = projects
                /\ DOMAIN projects # Ids
             \/ /\ lastRead'.code = 200
                /\ \E k \in DOMAIN projects : lastRead'.project = projects'[k]]_vars

\* C19 witness: a PUT whose body carries an id was merged into the record of
\* key 1 while a second project was in the store: the record of key 1 has
\* the id of the body, the record of key 2 has id 2, both keys are there.
C19_Witness ==
  /\ DOMAIN projects = {1, 2}
  /\ projects[1].id = 0
  /\ projects[2].id = 2
  /\ lastRead = Ok(projects[1])
  /\ wpc[1] = "done" /\ wpc[2] = "done"

=============================================================================
